---- MODULE Spec2Model ----
(***************************************************************************)
(* Model of the normalization-and-reconciliation engine of the            *)
(* Employment_Verification_module repository:                             *)
(*   normalize/common.py, normalize/validators.py,                        *)
(*   normalize/paystub_fields.py, normalize/ev_fields.py,                 *)
(*   merge/rules.py, merge/merge_engine.py.                               *)
(*                                                                         *)
(* Text is a sequence of one-character strings.  A Python value is a       *)
(* record [t, s, n, e]: t is the type tag ("None", "str", "int", "float"), *)
(* s the characters of a str, and n, e the number n / 10^e of an int       *)
(* (e = 0) or of a float (n carries no trailing decimal zero).             *)
(***************************************************************************)
EXTENDS Integers, Sequences, FiniteSets, TLC

(* ------------------------------------------------------------------ *)
(* Python values                                                       *)
(* ------------------------------------------------------------------ *)

None == [t |-> "None", s |-> <<>>, n |-> 0, e |-> 0]

Str(chars) == [t |-> "str", s |-> chars, n |-> 0, e |-> 0]

PyInt(k) == [t |-> "int", s |-> <<>>, n |-> k, e |-> 0]

RECURSIVE TrimZeros(_, _)
TrimZeros(m, k) ==
    IF k > 0 /\ m % 10 = 0 THEN TrimZeros(m \div 10, k - 1) ELSE <<m, k>>

\* The float m / 10^k, in canonical form.
PyFloat(m, k) ==
    LET p == TrimZeros(m, k) IN [t |-> "float", s |-> <<>>, n |-> p[1], e |-> p[2]]

\* The exception a call ends with, carried as a value through the callers.
Raised(kind) == [t |-> "raise", s |-> <<kind>>, n |-> 0, e |-> 0]

IsRaised(v) == v.t = "raise"

\* Python truthiness of a value: `not s` is ~Truthy(s).
Truthy(v) ==
    CASE v.t = "None" -> FALSE
      [] v.t = "str" -> Len(v.s) > 0
      [] v.t = "int" -> v.n # 0
      [] v.t = "float" -> v.n # 0
      [] OTHER -> TRUE

(* ------------------------------------------------------------------ *)
(* Characters                                                          *)
(* ------------------------------------------------------------------ *)

UpperChars == <<"A", "B", "C", "D", "E", "F", "G", "H", "I", "J", "K", "L", "M",
                "N", "O", "P", "Q", "R", "S", "T", "U", "V", "W", "X", "Y", "Z">>

LowerChars == <<"a", "b", "c", "d", "e", "f", "g", "h", "i", "j", "k", "l", "m",
                "n", "o", "p", "q", "r", "s", "t", "u", "v", "w", "x", "y", "z">>

DigitChars == <<"0", "1", "2", "3", "4", "5", "6", "7", "8", "9">>

SeqRange(q) == {q[i] : i \in 1..Len(q)}

IndexOf(q, c) == CHOOSE i \in 1..Len(q) : q[i] = c

IsUpperChar(c) == c \in SeqRange(UpperChars)

IsLowerChar(c) == c \in SeqRange(LowerChars)

\* str.isdigit / \d on one character.
IsDigit(c) == c \in SeqRange(DigitChars)

DigitVal(c) == IndexOf(DigitChars, c) - 1

\* str.isspace on one character: what str.split() and \s separate on.
IsSpace(c) == c \in {" ", "\t", "\n", "\r"}

LowerChar(c) == IF IsUpperChar(c) THEN LowerChars[IndexOf(UpperChars, c)] ELSE c

UpperChar(c) == IF IsLowerChar(c) THEN UpperChars[IndexOf(LowerChars, c)] ELSE c

\* str.lower
Lower(q) == [i \in 1..Len(q) |-> LowerChar(q[i])]

(* ------------------------------------------------------------------ *)
(* str methods                                                         *)
(* ------------------------------------------------------------------ *)

Drop(q, k) == SubSeq(q, k + 1, Len(q))

Take(q, k) == SubSeq(q, 1, k)

\* str.startswith
StartsWith(q, p) == Len(p) <= Len(q) /\ Take(q, Len(p)) = p

RECURSIVE LStrip(_)
\* str.lstrip
LStrip(q) == IF q # <<>> /\ IsSpace(Head(q)) THEN LStrip(Tail(q)) ELSE q

RECURSIVE SplitFrom(_, _, _)
\* str.split(): the maximal runs of non-space characters, in order.
SplitFrom(q, cur, acc) ==
    IF q = <<>> THEN (IF cur = <<>> THEN acc ELSE Append(acc, cur))
    ELSE IF IsSpace(Head(q))
         THEN SplitFrom(Tail(q), <<>>, IF cur = <<>> THEN acc ELSE Append(acc, cur))
         ELSE SplitFrom(Tail(q), Append(cur, Head(q)), acc)

Split(q) == SplitFrom(q, <<>>, <<>>)

RECURSIVE Join(_, _)
\* sep.join(parts)
Join(sep, parts) ==
    IF parts = <<>> THEN <<>>
    ELSE IF Len(parts) = 1 THEN parts[1]
    ELSE parts[1] \o sep \o Join(sep, Tail(parts))

RECURSIVE Replace(_, _, _)
\* str.replace(old, new) for a non-empty old: left to right, not overlapping.
Replace(q, old, new) ==
    IF q = <<>> THEN <<>>
    ELSE IF StartsWith(q, old) THEN new \o Replace(Drop(q, Len(old)), old, new)
    ELSE <<Head(q)>> \o Replace(Tail(q), old, new)

\* str.isupper: some cased character, and no lowercase one.
IsUpper(q) ==
    /\ \E i \in 1..Len(q) : IsUpperChar(q[i])
    /\ \A i \in 1..Len(q) : ~IsLowerChar(q[i])

\* str.capitalize
Capitalize(q) ==
    IF q = <<>> THEN <<>> ELSE <<UpperChar(Head(q))>> \o Lower(Tail(q))

RECURSIVE DigitsToNat(_, _)
\* int() of a run of digits.
DigitsToNat(q, acc) ==
    IF q = <<>> THEN acc ELSE DigitsToNat(Tail(q), 10 * acc + DigitVal(Head(q)))

ToNat(q) == DigitsToNat(q, 0)

AllDigits(q) == \A i \in 1..Len(q) : IsDigit(q[i])

RECURSIVE NatDigits(_)
NatDigits(k) ==
    IF k < 10 THEN <<DigitChars[k + 1]>>
    ELSE Append(NatDigits(k \div 10), DigitChars[(k % 10) + 1])

RECURSIVE ZeroPad(_, _)
\* The digits q left-padded with zeros to width w.
ZeroPad(q, w) == IF Len(q) >= w THEN q ELSE ZeroPad(<<"0">> \o q, w)

AcronymMaxLen == 4

MinDateLen == 6

DigitRunMax == 4

CenturyBase == 2000

(* ------------------------------------------------------------------ *)
(* Built-ins: str(), float()                                           *)
(* ------------------------------------------------------------------ *)

Abs(k) == IF k < 0 THEN -k ELSE k

RECURSIVE Pow10(_)
Pow10(k) == IF k = 0 THEN 1 ELSE 10 * Pow10(k - 1)

\* str() of a value: repr of an int, shortest decimal form of a float.
PyStr(v) ==
    CASE v.t = "str" -> v.s
      [] v.t = "None" -> <<"N", "o", "n", "e">>
      [] v.t = "int" -> (IF v.n < 0 THEN <<"-">> ELSE <<>>) \o NatDigits(Abs(v.n))
      [] v.t = "float" ->
            (IF v.n < 0 THEN <<"-">> ELSE <<>>)
            \o NatDigits(Abs(v.n) \div Pow10(v.e))
            \o <<".">>
            \o (IF v.e = 0 THEN <<"0">>
                ELSE ZeroPad(NatDigits(Abs(v.n) % Pow10(v.e)), v.e))

RECURSIVE RStrip(_)
RStrip(q) ==
    IF q # <<>> /\ IsSpace(q[Len(q)]) THEN RStrip(Take(q, Len(q) - 1)) ELSE q

\* The length of the longest prefix of q made of digits.
RECURSIVE DigitRun(_)
DigitRun(q) == IF q # <<>> /\ IsDigit(Head(q)) THEN 1 + DigitRun(Tail(q)) ELSE 0

\* float() of an unsigned decimal literal whose integer part has ip digits
\* and whose fraction, after a point, has fp digits (fp = -1: no point).
DecimalLiteral(neg, num, ip, fp) ==
    IF ip + fp > 0 /\ ip + fp + 1 = Len(num) /\ fp >= 0
    THEN PyFloat((IF neg THEN -1 ELSE 1)
                   * ToNat(Take(num, ip) \o SubSeq(num, ip + 2, ip + 1 + fp)), fp)
    ELSE IF ip > 0 /\ ip = Len(num) THEN PyFloat((IF neg THEN -1 ELSE 1) * ToNat(num), 0)
    ELSE Raised("ValueError")

UnsignedLiteral(neg, num, ip) ==
    DecimalLiteral(neg, num, ip,
                   IF Len(num) > ip /\ num[ip + 1] = "."
                   THEN DigitRun(Drop(num, ip + 1)) ELSE -1)

SignedLiteral(body) ==
    IF body # <<>> /\ Head(body) \in {"-", "+"}
    THEN UnsignedLiteral(Head(body) = "-", Tail(body), DigitRun(Tail(body)))
    ELSE UnsignedLiteral(FALSE, body, DigitRun(body))

\* float(text) on the decimal literals [sign] digits [. [digits]] and
\* [sign] . digits, surrounding whitespace ignored; any other text is a
\* ValueError.  (The exponent, "inf", "nan" and "_" forms float() also reads
\* are not modelled: no input of the model holds one.)
FloatOfText(q) == SignedLiteral(RStrip(LStrip(q)))

\* float(x) of an int or float.
FloatOfNumber(v) == PyFloat(v.n, v.e)

IsNumber(v) == v.t \in {"int", "float"}

(* ------------------------------------------------------------------ *)
(* normalize/common.py                                                 *)
(* ------------------------------------------------------------------ *)

\* out or None
OrNone(out) == IF out = <<>> THEN None ELSE Str(out)

\* squash_spaces: collapse whitespace runs and trim; None when nothing is left.
squash_spaces(v) ==
    IF ~Truthy(v) THEN None ELSE OrNone(Join(<<" ">>, Split(PyStr(v))))

\* The replace calls of clean_money, in order.
RejoinSeparators(q) ==
    Replace(Replace(Replace(Replace(Replace(q,
        <<",", " ">>, <<",">>),
        <<" ", ".">>, <<".">>),
        <<".", " ">>, <<".">>),
        <<" ", ",">>, <<",">>),
        <<"$", " ">>, <<"$">>)

\* s = squash_spaces(s) or s
SquashedOr(sq, v) == IF Truthy(sq) THEN sq.s ELSE PyStr(v)

\* clean_money: rejoin OCR-split separators of a currency text.
clean_money(v) ==
    IF ~Truthy(v) THEN None
    ELSE Str(RejoinSeparators(SquashedOr(squash_spaces(v), v)))

\* _MONEY_RX.sub("", s): keep digits, ".", "," and "-".
MoneyChars(q) == SelectSeq(q, LAMBDA c : IsDigit(c) \/ c \in {".", ",", "-"})

\* try: float(digits.replace(",", "")) / except: None
FloatOrNone(f) == IF IsRaised(f) THEN None ELSE f

MoneyOfDigits(digits) ==
    IF digits = <<>> THEN None
    ELSE FloatOrNone(FloatOfText(SelectSeq(digits, LAMBDA c : c # ",")))

\* money_to_float: the number in a currency text, None when there is none.
\* _MONEY_RX.sub on a value that is not a str is a TypeError.
money_to_float(v) ==
    IF ~Truthy(v) THEN None
    ELSE IF v.t # "str" THEN Raised("TypeError")
    ELSE MoneyOfDigits(MoneyChars(v.s))

\* The length of the match of \d+(\.\d+)? at the head of a text that starts
\* with ip digits.
NumberLen(body, ip) ==
    IF Len(body) > ip + 1 /\ body[ip + 1] = "." /\ IsDigit(body[ip + 2])
    THEN ip + 1 + DigitRun(Drop(body, ip + 1))
    ELSE ip

RECURSIVE FirstNumber(_)
\* re.search(r"-?\d+(\.\d+)?", q): the text of the leftmost match, << >> if none.
FirstNumber(q) ==
    IF q = <<>> THEN <<>>
    ELSE IF Head(q) = "-" /\ DigitRun(Tail(q)) > 0
    THEN Take(q, 1 + NumberLen(Tail(q), DigitRun(Tail(q))))
    ELSE IF IsDigit(Head(q)) THEN Take(q, NumberLen(q, DigitRun(q)))
    ELSE FirstNumber(Tail(q))

\* The except branch of to_float: the first number in the text, else None.
EmbeddedNumber(m) == IF m # <<>> THEN FloatOfText(m) ELSE None

\* try: float(s) / except: the first embedded number.
FloatOrEmbedded(f, q) == IF ~IsRaised(f) THEN f ELSE EmbeddedNumber(FirstNumber(q))

ToFloatOfText(sq) == IF ~Truthy(sq) THEN None ELSE FloatOrEmbedded(FloatOfText(sq.s), sq.s)

\* to_float: a number-like value as a float, else None.
to_float(v) ==
    IF v.t = "None" THEN None
    ELSE IF IsNumber(v) THEN FloatOfNumber(v)
    ELSE ToFloatOfText(squash_spaces(Str(PyStr(v))))

RECURSIVE StripFirst(_, _, _)
\* The loop of strip_prefix over the prefixes.
StripFirst(txt, lowered, prefixes) ==
    IF prefixes = <<>> THEN txt
    ELSE IF StartsWith(lowered, Lower(Head(prefixes)))
    THEN LStrip(Drop(txt, Len(Head(prefixes))))
    ELSE StripFirst(txt, lowered, Tail(prefixes))

StripLabel(txt, prefixes) == StripFirst(txt, Lower(txt), prefixes)

\* strip_prefix: drop the first label of `prefixes` the text starts with
\* (case-insensitive) and the whitespace after it.  s.lstrip() is an
\* AttributeError when s is a number.
strip_prefix(v, prefixes) ==
    IF ~Truthy(v) THEN None
    ELSE IF v.t # "str" THEN Raised("AttributeError")
    ELSE Str(StripLabel(LStrip(v.s), prefixes))

\* w if w.isupper() and len(w) <= 4 else w.capitalize()
TitleWord(w) == IF IsUpper(w) /\ Len(w) <= AcronymMaxLen THEN w ELSE Capitalize(w)

TitleWords(parts) == [i \in 1..Len(parts) |-> TitleWord(parts[i])]

\* titlecase_job: capitalize each word, keeping all-caps words of <= 4 letters.
titlecase_job(v) ==
    IF ~Truthy(v) THEN None
    ELSE Str(Join(<<" ">>, TitleWords(Split(SquashedOr(squash_spaces(v), v)))))

(* ------------------------------------------------------------------ *)
(* datetime                                                            *)
(* ------------------------------------------------------------------ *)

IsLeap(y) == y % 4 = 0 /\ (y % 100 # 0 \/ y % 400 = 0)

DaysInMonth(y, m) ==
    IF m = 2 THEN (IF IsLeap(y) THEN 29 ELSE 28)
    ELSE IF m \in {4, 6, 9, 11} THEN 30 ELSE 31

\* datetime(year, month, day) succeeds (MINYEAR = 1, MAXYEAR = 9999);
\* otherwise it raises ValueError.
ValidDate(y, m, d) ==
    /\ y >= 1 /\ y <= 9999
    /\ m >= 1 /\ m <= 12
    /\ d >= 1 /\ d <= DaysInMonth(y, m)

RECURSIVE DaysBeforeMonth(_, _)
DaysBeforeMonth(y, m) ==
    IF m = 1 THEN 0 ELSE DaysBeforeMonth(y, m - 1) + DaysInMonth(y, m - 1)

\* date.toordinal(): the day number, 0001-01-01 being day 1.
Ordinal(y, m, d) ==
    LET p == y - 1
    IN  p * 365 + (p \div 4) - (p \div 100) + (p \div 400) + DaysBeforeMonth(y, m) + d

NoDate == [ok |-> FALSE, y |-> 0, m |-> 0, d |-> 0]

Date(y, m, d) == [ok |-> TRUE, y |-> y, m |-> m, d |-> d]

\* datetime(year=y, month=m, day=d) inside a try: NoDate for a ValueError.
MakeDate(y, m, d) == IF ValidDate(y, m, d) THEN Date(y, m, d) ELSE NoDate

\* dt.strftime("%Y-%m-%d").  The C library formats %Y: glibc writes a year
\* below 1000 without leading zeros, other platforms pad it to four digits;
\* strftime_pads_year is the platform the program runs on.
Strftime(dt, pads) ==
    (IF pads THEN ZeroPad(NatDigits(dt.y), 4) ELSE NatDigits(dt.y))
    \o <<"-">> \o ZeroPad(NatDigits(dt.m), 2)
    \o <<"-">> \o ZeroPad(NatDigits(dt.d), 2)

MonthAbbr == << <<"j", "a", "n">>, <<"f", "e", "b">>, <<"m", "a", "r">>,
                <<"a", "p", "r">>, <<"m", "a", "y">>, <<"j", "u", "n">>,
                <<"j", "u", "l">>, <<"a", "u", "g">>, <<"s", "e", "p">>,
                <<"o", "c", "t">>, <<"n", "o", "v">>, <<"d", "e", "c">> >>

\* The number of characters a strptime directive takes of a text whose first
\* characters are c1 and c2 ("" past the end) and which starts with `run`
\* digits; 0 when it does not match.  The alternatives of _strptime's regular
\* expressions, in order.
MatchLen(dir, c1, c2, run, q) ==
    CASE dir = "d" ->
           IF c1 = "3" /\ c2 \in {"0", "1"} THEN 2
           ELSE IF c1 \in {"1", "2"} /\ run >= 2 THEN 2
           ELSE IF c1 = "0" /\ run >= 2 /\ c2 # "0" THEN 2
           ELSE IF run >= 1 /\ c1 # "0" THEN 1
           ELSE IF c1 = " " /\ IsDigit(c2) /\ c2 # "0" THEN 2
           ELSE 0
      [] dir = "m" ->
           IF c1 = "1" /\ c2 \in {"0", "1", "2"} THEN 2
           ELSE IF c1 = "0" /\ run >= 2 /\ c2 # "0" THEN 2
           ELSE IF run >= 1 /\ c1 # "0" THEN 1
           ELSE 0
      [] dir = "Y" -> IF run >= 4 THEN 4 ELSE 0
      [] dir = "y" -> IF run >= 2 THEN 2 ELSE 0
      [] dir = "b" ->
           IF Len(q) >= 3 /\ \E i \in 1..12 : Lower(Take(q, 3)) = MonthAbbr[i]
           THEN 3 ELSE 0

CharAt(q, i) == IF Len(q) >= i THEN q[i] ELSE ""

DirectiveLen(dir, q) == MatchLen(dir, CharAt(q, 1), CharAt(q, 2), DigitRun(q), q)

\* A two-digit year: 69-99 are 1969-1999, 0-68 are 2000-2068.
PivotYear(k) == IF k <= 68 THEN 2000 + k ELSE 1900 + k

\* The integer a matched directive stands for.
DirectiveVal(dir, q) ==
    IF dir = "b" THEN CHOOSE i \in 1..12 : Lower(q) = MonthAbbr[i]
    ELSE IF dir = "y" THEN PivotYear(ToNat(q))
    ELSE ToNat(SelectSeq(q, IsDigit))

\* The field of the date a directive sets.
DirectiveField(dir) ==
    CASE dir \in {"Y", "y"} -> "y"
      [] dir \in {"m", "b"} -> "m"
      [] dir = "d" -> "d"

RECURSIVE StrptimeFrom(_, _, _)
RECURSIVE TakeDirective(_, _, _, _, _)

\* A directive that takes k characters of the text sets its field of the date.
TakeDirective(q, fmt, acc, dir, k) ==
    IF k = 0 THEN NoDate
    ELSE StrptimeFrom(Drop(q, k), fmt,
                      [acc EXCEPT ![DirectiveField(dir)] = DirectiveVal(dir, Take(q, k))])

\* One element of the format against the head of the text: a directive, \s+
\* for a blank of the format, or the literal character.
MatchElement(q, fmt, acc, f) ==
    IF Len(f) = 2 THEN TakeDirective(q, fmt, acc, f[2], DirectiveLen(f[2], q))
    ELSE IF q = <<>> THEN NoDate
    ELSE IF f = <<" ">>
    THEN (IF IsSpace(Head(q)) THEN StrptimeFrom(LStrip(q), fmt, acc) ELSE NoDate)
    ELSE (IF Head(q) = f[1] THEN StrptimeFrom(Tail(q), fmt, acc) ELSE NoDate)

\* Match the rest of the format against the rest of the text; text left over
\* after the format is "unconverted data remains".
StrptimeFrom(q, fmt, acc) ==
    IF fmt = <<>> THEN (IF q = <<>> THEN MakeDate(acc.y, acc.m, acc.d) ELSE NoDate)
    ELSE MatchElement(q, Tail(fmt), acc, Head(fmt))

\* datetime.strptime(q, fmt) inside a try: NoDate for a ValueError.  A format
\* is the sequence of its directives and literal characters.
Strptime(q, fmt) == StrptimeFrom(q, fmt, [y |-> 1900, m |-> 1, d |-> 1])

Pct(c) == <<"%", c>>

Lit(c) == <<c>>

\* "%Y-%m-%d"
IsoFormat == <<Pct("Y"), Lit("-"), Pct("m"), Lit("-"), Pct("d")>>

\* fmts of parse_date, in order.
DateFormats ==
    << <<Pct("m"), Lit("/"), Pct("d"), Lit("/"), Pct("Y")>>,
       <<Pct("m"), Lit("-"), Pct("d"), Lit("-"), Pct("Y")>>,
       IsoFormat,
       <<Pct("m"), Lit("/"), Pct("d"), Lit("/"), Pct("y")>>,
       <<Pct("m"), Lit("-"), Pct("d"), Lit("-"), Pct("y")>>,
       <<Pct("d"), Lit("-"), Pct("b"), Lit("-"), Pct("Y")>>,
       <<Pct("d"), Lit(" "), Pct("b"), Lit(" "), Pct("Y")>> >>

RECURSIVE FindDigitRuns(_)
\* re.findall(r"\d{1,4}", q): the digit runs, cut after four digits.
FindDigitRuns(q) ==
    IF q = <<>> THEN <<>>
    ELSE LET k == DigitRun(q)
             w == IF k > DigitRunMax THEN DigitRunMax ELSE k
         IN  IF k = 0 THEN FindDigitRuns(Tail(q))
             ELSE <<Take(q, w)>> \o FindDigitRuns(Drop(q, w))

\* int(m[2]) if len(m[2]) == 4 else 2000 + int(m[2])
FallbackYear(run) == IF Len(run) = DigitRunMax THEN ToNat(run) ELSE CenturyBase + ToNat(run)

\* mm, dd, yyyy of the first three digit runs, as a date.
DateOfRuns(m) ==
    IF Len(m) >= 3 THEN MakeDate(FallbackYear(m[3]), ToNat(m[1]), ToNat(m[2])) ELSE NoDate

\* The fallback of parse_date: the first three digit runs as month, day, year.
DigitFallback(q) == DateOfRuns(FindDigitRuns(q))

\* try: return the date / except: pass, and go on.
OrElse(dt, rest) == IF dt.ok THEN dt ELSE rest

RECURSIVE TryFormats(_, _)
\* The loop of parse_date over fmts from the i-th on, then the fallback.
TryFormats(q, i) ==
    IF i > Len(DateFormats) THEN DigitFallback(q)
    ELSE OrElse(Strptime(q, DateFormats[i]), TryFormats(q, i + 1))

\* dt.strftime("%Y-%m-%d") of the date found, None when none was.
DateText(dt, pads) == IF dt.ok THEN Str(Strftime(dt, pads)) ELSE None

ParseDateText(txt, pads) ==
    IF ~Truthy(txt) \/ Len(txt.s) < MinDateLen THEN None
    ELSE DateText(TryFormats(txt.s, 1), pads)

\* parse_date: a date text as "YYYY-MM-DD", None when it is not a date.
parse_date(v, pads) ==
    IF ~Truthy(v) THEN None ELSE ParseDateText(squash_spaces(Str(PyStr(v))), pads)

(* ------------------------------------------------------------------ *)
(* normalize/validators.py                                             *)
(* ------------------------------------------------------------------ *)

EinDigits == 6

\* is_valid_ein: _EIN_RX = ^\d{6}$ matches six digits, and "$" also matches
\* before a final newline.
is_valid_ein(v) ==
    IF ~Truthy(v) THEN FALSE
    ELSE LET q == v.s
         IN  \/ Len(q) = EinDigits /\ AllDigits(q)
             \/ Len(q) = EinDigits + 1 /\ AllDigits(Take(q, EinDigits)) /\ q[Len(q)] = "\n"

(* ------------------------------------------------------------------ *)
(* Field records                                                       *)
(* ------------------------------------------------------------------ *)

\* {"value": value, "confidence": confidence}
Item(value, confidence) == [value |-> value, confidence |-> confidence]

\* A result that carries a confidence only with a value.
Normalized_valued(v, item) ==
    IF IsRaised(v) \/ v = None THEN Item(v, None) ELSE Item(v, item.confidence)

\* A normalizer's result: the value cleaned, the confidence as received; the
\* exception when cleaning raised.
Normalized(v, item) == IF IsRaised(v) THEN Item(v, None) ELSE Item(v, item.confidence)

(* ------------------------------------------------------------------ *)
(* normalize/paystub_fields.py                                         *)
(* ------------------------------------------------------------------ *)

_keep(shape) == Item(shape.value, shape.confidence)

norm_employee_name_ps(item) == Normalized(squash_spaces(item.value), item)

norm_employer_name_ps(item) == Normalized(squash_spaces(item.value), item)

norm_employer_address_ps(item) == Normalized(squash_spaces(item.value), item)

\* Returned as received: no digit extraction, no is_valid_ein.
norm_ein_ps(item) == _keep(item)

norm_job_title_ps(item) == Normalized(titlecase_job(item.value), item)

norm_pay_date_ps(item, pads) == Normalized(parse_date(item.value, pads), item)

\* clean_money only: money_to_float is not called.
norm_gross_amount_ps(item) == Normalized(clean_money(item.value), item)

norm_total_hours_ps(item) == Normalized(to_float(item.value), item)

norm_period_start_ps(item, pads) == Normalized(parse_date(item.value, pads), item)

norm_period_end_ps(item, pads) == Normalized(parse_date(item.value, pads), item)

(* ------------------------------------------------------------------ *)
(* normalize/ev_fields.py                                              *)
(* ------------------------------------------------------------------ *)

norm_employee_name_ev(item) == Normalized(squash_spaces(item.value), item)

norm_employer_name_ev(item) == Normalized(squash_spaces(item.value), item)

norm_employer_address_ev(item) == Normalized(squash_spaces(item.value), item)

norm_ein_ev(item) ==
    LET raw == item.value
        digits == IF Truthy(raw) THEN Str(SelectSeq(PyStr(raw), IsDigit)) ELSE None
    IN  IF Truthy(digits) /\ is_valid_ein(digits)
        THEN Item(digits, item.confidence)
        ELSE Item(None, item.confidence)

norm_hire_date_ev(item, pads) == Normalized(parse_date(item.value, pads), item)

norm_job_title_ev(item) == Normalized(titlecase_job(item.value), item)

norm_total_hours_ev(item) == Normalized(to_float(item.value), item)

norm_lof_date_ev(item, pads) == Normalized(parse_date(item.value, pads), item)

\* "Reason:", "reason:", "Reason -" and "Reason " followed by the three
\* characters U+00E2 U+20AC U+201C, as the source file spells the last label.
ReasonPrefixes ==
    << <<"R", "e", "a", "s", "o", "n", ":">>,
       <<"r", "e", "a", "s", "o", "n", ":">>,
       <<"R", "e", "a", "s", "o", "n", " ", "-">>,
       <<"R", "e", "a", "s", "o", "n", " ", "U+00E2", "U+20AC", "U+201C">> >>

norm_lof_reason_ev(item) ==
    LET v == strip_prefix(item.value, ReasonPrefixes)
    IN  Normalized(IF IsRaised(v) THEN v ELSE squash_spaces(v), item)

norm_last_paycheck_date_ev(item, pads) == Normalized(parse_date(item.value, pads), item)

(* ------------------------------------------------------------------ *)
(* merge/rules.py                                                      *)
(* ------------------------------------------------------------------ *)

CANONICAL_FIELDS ==
    <<"EmployeeName", "EmployerName", "EmployerAddress", "EIN", "HireDate",
      "JobTitle", "PayDate", "GrossAmount", "TotalHours", "PayPeriodStartDate",
      "PayPeriodEndDate", "PayFrequency", "LossOfEmploymentDate",
      "LossOfEmploymentReason", "DateOfLastPaycheck">>

CanonicalSet == SeqRange(CANONICAL_FIELDS)

PRIORITY ==
    [f \in CanonicalSet |->
        CASE f \in {"EmployeeName", "EmployerName", "EmployerAddress", "EIN",
                    "JobTitle", "TotalHours"} -> <<"paystub", "ev">>
          [] f \in {"PayDate", "GrossAmount", "PayPeriodStartDate",
                    "PayPeriodEndDate"} -> <<"paystub">>
          [] f = "PayFrequency" -> <<"derived">>
          [] f \in {"HireDate", "LossOfEmploymentDate", "LossOfEmploymentReason",
                    "DateOfLastPaycheck"} -> <<"ev">>]

\* The PRIORITY table of the rules module as loaded: rules.py as shipped
\* holds the table above.
VARIABLE loaded_priority

\* PRIORITY.get(field, [])
PriorityOf(field) ==
    IF field \in DOMAIN loaded_priority THEN loaded_priority[field] ELSE <<>>

(* ------------------------------------------------------------------ *)
(* merge/merge_engine.py                                               *)
(* ------------------------------------------------------------------ *)

\* The take(raw_key, canon_key, fn) calls of normalize_paystub, in order.
PaystubTakes ==
    << <<"EmployeeName", "EmployeeName", "norm_employee_name_ps">>,
       <<"EmployerName", "EmployerName", "norm_employer_name_ps">>,
       <<"EmployerAddress", "EmployerAddress", "norm_employer_address_ps">>,
       <<"EIN", "EIN", "norm_ein_ps">>,
       <<"JobTitle", "JobTitle", "norm_job_title_ps">>,
       <<"PayDate", "PayDate", "norm_pay_date_ps">>,
       <<"CurrentPeriodGrossPay", "GrossAmount", "norm_gross_amount_ps">>,
       <<"TotalHoursWorked", "TotalHours", "norm_total_hours_ps">>,
       <<"PayPeriodStartDate", "PayPeriodStartDate", "norm_period_start_ps">>,
       <<"PayPeriodEndDate", "PayPeriodEndDate", "norm_period_end_ps">> >>

\* The take(raw_key, canon_key, fn) calls of normalize_ev, in order.
EvTakes ==
    << <<"EmployeeName", "EmployeeName", "norm_employee_name_ev">>,
       <<"CompanyName", "EmployerName", "norm_employer_name_ev">>,
       <<"Company Address", "EmployerAddress", "norm_employer_address_ev">>,
       <<"EIN", "EIN", "norm_ein_ev">>,
       <<"HireDate", "HireDate", "norm_hire_date_ev">>,
       <<"JobTitle", "JobTitle", "norm_job_title_ev">>,
       <<"AverageWorkingHours", "TotalHours", "norm_total_hours_ev">>,
       <<"EmplyomentEndDate", "LossOfEmploymentDate", "norm_lof_date_ev">>,
       <<"EmploymentEndDateReason", "LossOfEmploymentReason", "norm_lof_reason_ev">>,
       <<"FinalPayCheckDate", "DateOfLastPaycheck", "norm_last_paycheck_date_ev">> >>

\* fn(item) for the normalizer a take names.
ApplyNormalizer(fn, item, pads) ==
    CASE fn = "norm_employee_name_ps" -> norm_employee_name_ps(item)
      [] fn = "norm_employer_name_ps" -> norm_employer_name_ps(item)
      [] fn = "norm_employer_address_ps" -> norm_employer_address_ps(item)
      [] fn = "norm_ein_ps" -> norm_ein_ps(item)
      [] fn = "norm_job_title_ps" -> norm_job_title_ps(item)
      [] fn = "norm_pay_date_ps" -> norm_pay_date_ps(item, pads)
      [] fn = "norm_gross_amount_ps" -> norm_gross_amount_ps(item)
      [] fn = "norm_total_hours_ps" -> norm_total_hours_ps(item)
      [] fn = "norm_period_start_ps" -> norm_period_start_ps(item, pads)
      [] fn = "norm_period_end_ps" -> norm_period_end_ps(item, pads)
      [] fn = "norm_employee_name_ev" -> norm_employee_name_ev(item)
      [] fn = "norm_employer_name_ev" -> norm_employer_name_ev(item)
      [] fn = "norm_employer_address_ev" -> norm_employer_address_ev(item)
      [] fn = "norm_ein_ev" -> norm_ein_ev(item)
      [] fn = "norm_hire_date_ev" -> norm_hire_date_ev(item, pads)
      [] fn = "norm_job_title_ev" -> norm_job_title_ev(item)
      [] fn = "norm_total_hours_ev" -> norm_total_hours_ev(item)
      [] fn = "norm_lof_date_ev" -> norm_lof_date_ev(item, pads)
      [] fn = "norm_lof_reason_ev" -> norm_lof_reason_ev(item)
      [] fn = "norm_last_paycheck_date_ev" -> norm_last_paycheck_date_ev(item, pads)

\* A RawFieldSet argument: absent (None) or a dict from raw keys to items.
Absent == [present |-> FALSE, fields |-> <<>>]

Dict(fields) == [present |-> TRUE, fields |-> fields]

\* `raw or {}`
OrEmpty(raw) == IF raw.present THEN raw.fields ELSE <<>>

\* The takes whose raw key the dict holds (item is not None), in order.
TakesHit(takes, fields) == SelectSeq(takes, LAMBDA tk : tk[1] \in DOMAIN fields)

\* What the take calls compute, in call order: (canon_key, fn(item)).
TakeResults(hit, fields, pads) ==
    [i \in 1..Len(hit) |-> <<hit[i][2], ApplyNormalizer(hit[i][3], fields[hit[i][1]], pads)>>]

\* The exception of the first take call that raised, "" when none did.
FirstRaise(bad) == IF bad = <<>> THEN "" ELSE bad[1][2].value.s[1]

\* A normalize_* call: the dict `out` it returns, or the exception it ends with.
Outcome(res) ==
    [exc |-> FirstRaise(SelectSeq(res, LAMBDA r : IsRaised(r[2].value))),
     out |-> [c \in {res[i][1] : i \in 1..Len(res)} |->
                res[CHOOSE i \in 1..Len(res) : res[i][1] = c][2]]]

\* normalize_paystub: the canonical dict of the mapped paystub keys.
normalize_paystub(ps, pads) ==
    Outcome(TakeResults(TakesHit(PaystubTakes, OrEmpty(ps)), OrEmpty(ps), pads))

\* normalize_ev: the canonical dict of the mapped EV keys.
normalize_ev(ev, pads) ==
    Outcome(TakeResults(TakesHit(EvTakes, OrEmpty(ev)), OrEmpty(ev), pads))

WeeklyMaxDays == 8

BiWeeklyMaxDays == 15

SemiMonthlyMaxDays == 20

DerivedConfidence == 100

\* The classification with every threshold exclusive.
FrequencyOfDays_exclusive(days) ==
    IF days < WeeklyMaxDays THEN <<"W", "e", "e", "k", "l", "y">>
    ELSE IF days < BiWeeklyMaxDays THEN <<"B", "i", "-", "W", "e", "e", "k", "l", "y">>
    ELSE IF days < SemiMonthlyMaxDays
         THEN <<"S", "e", "m", "i", "-", "M", "o", "n", "t", "h", "l", "y">>
    ELSE <<"M", "o", "n", "t", "h", "l", "y">>

\* The classification of an inclusive day count.
FrequencyOfDays(days) ==
    IF days <= WeeklyMaxDays THEN <<"W", "e", "e", "k", "l", "y">>
    ELSE IF days <= BiWeeklyMaxDays THEN <<"B", "i", "-", "W", "e", "e", "k", "l", "y">>
    ELSE IF days <= SemiMonthlyMaxDays
         THEN <<"S", "e", "m", "i", "-", "M", "o", "n", "t", "h", "l", "y">>
    ELSE <<"M", "o", "n", "t", "h", "l", "y">>

\* (ps_norm.get(key) or {}).get("value")
ValueAt(norm, key) == IF key \in DOMAIN norm THEN norm[key].value ELSE None

NoResult == [found |-> FALSE, item |-> Item(None, None)]

\* days = (dt_e - dt_s).days + 1, classified; None when strptime raised.
FrequencyBetween(dt_s, dt_e) ==
    IF ~dt_s.ok \/ ~dt_e.ok THEN NoResult
    ELSE [found |-> TRUE,
          item |-> Item(Str(FrequencyOfDays(Ordinal(dt_e.y, dt_e.m, dt_e.d)
                                            - Ordinal(dt_s.y, dt_s.m, dt_s.d) + 1)),
                        PyFloat(DerivedConfidence, 0))]

\* datetime.strptime(s, "%Y-%m-%d") inside the try: a value that is not a str
\* is a TypeError there, caught like the ValueError of a text that is no date.
IsoDate(v) == IF v.t = "str" THEN Strptime(v.s, IsoFormat) ELSE NoDate

FrequencyOfPeriod(s, e) ==
    IF ~Truthy(s) \/ ~Truthy(e) THEN NoResult ELSE FrequencyBetween(IsoDate(s), IsoDate(e))

\* A derivation that takes the pay date for the end of the period.
derive_pay_frequency_to_pay_date(ps_norm) ==
    FrequencyOfPeriod(ValueAt(ps_norm, "PayPeriodStartDate"), ValueAt(ps_norm, "PayDate"))

\* derive_pay_frequency: {"PayFrequency": item} from the paystub period
\* dates, or None.
derive_pay_frequency(ps_norm) ==
    FrequencyOfPeriod(ValueAt(ps_norm, "PayPeriodStartDate"),
                      ValueAt(ps_norm, "PayPeriodEndDate"))

\* item.get("value") not in (None, "")
NonEmpty(item) == item.value.t # "None" /\ item.value # Str(<<>>)

\* The confidence of an item as a number, None below every score.
ConfidenceRank(item) == IF item.confidence.t = "None" THEN -1 ELSE item.confidence.n

\* A choice that arbitrates by confidence: among the sources that hold a
\* non-empty value, the one with the highest score.
Chosen_by_confidence(srcs, field, ps_norm, ev_norm) ==
    LET held == {n \in {ps_norm, ev_norm} : field \in DOMAIN n /\ NonEmpty(n[field])}
    IN  IF held = {} THEN Item(None, None)
        ELSE (CHOOSE n \in held :
                  \A o \in held : ConfidenceRank(n[field]) >= ConfidenceRank(o[field]))[field]

\* A choice that keeps the item of a source whose value is empty, with its
\* confidence, when no source holds a non-empty value.
Chosen_keep_empty(srcs, field, ps_norm, ev_norm) ==
    LET held == {n \in {ps_norm, ev_norm} : field \in DOMAIN n /\ NonEmpty(n[field])}
        seen == {n \in {ps_norm, ev_norm} : field \in DOMAIN n}
    IN  IF held # {} THEN (IF field \in DOMAIN ps_norm /\ NonEmpty(ps_norm[field])
                           THEN ps_norm[field] ELSE ev_norm[field])
        ELSE IF seen # {} THEN (CHOOSE n \in seen : TRUE)[field]
        ELSE Item(None, None)

\* The inner loop of merge_by_priority: the item of the first source of the
\* list that holds a non-empty value for the field.
RECURSIVE Chosen(_, _, _, _)
Chosen(srcs, field, ps_norm, ev_norm) ==
    IF srcs = <<>> THEN Item(None, None)
    ELSE LET src == Head(srcs)
             norm == IF src = "paystub" THEN ps_norm
                     ELSE IF src = "ev" THEN ev_norm ELSE <<>>
         IN  IF field \in DOMAIN norm /\ NonEmpty(norm[field])
             THEN norm[field]
             ELSE Chosen(Tail(srcs), field, ps_norm, ev_norm)

\* A merge that never fills the derived field.
FillDerived_never(final, d) == final

\* The block after the loop of merge_by_priority: a derivation that
\* succeeded replaces the PayFrequency item.
FillDerived(final, d) ==
    IF /\ "PayFrequency" \in CanonicalSet
       /\ "derived" \in SeqRange(PriorityOf("PayFrequency"))
       /\ d.found
    THEN [final EXCEPT !["PayFrequency"] = d.item]
    ELSE final

\* A merge that leaves out the fields no source supplies.
merge_by_priority_sparse(ps_norm, ev_norm) ==
    LET full == FillDerived([f \in CanonicalSet |-> Chosen(PriorityOf(f), f, ps_norm, ev_norm)],
                            derive_pay_frequency(ps_norm))
    IN  [f \in {g \in CanonicalSet : full[g].value # None} |-> full[f]]

\* merge_by_priority: one item per canonical field, then the derived field.
merge_by_priority(ps_norm, ev_norm) ==
    FillDerived([f \in CanonicalSet |-> Chosen(PriorityOf(f), f, ps_norm, ev_norm)],
                derive_pay_frequency(ps_norm))

(* ------------------------------------------------------------------ *)
(* The inputs of build_unified                                         *)
(* ------------------------------------------------------------------ *)

\* Confidences are None or ConfStep, 2 * ConfStep, ..., on the 0-100 scale.
NumConf == 2

ConfStep == 30

\* At most MaxNoise keys outside the take lists in a raw set.
MaxNoise == 1

\* Period ends run from SpanBack days before the base date to MaxSpan after.
MaxSpan == 22

SpanBack == 2

Confs == {None} \cup {PyFloat(ConfStep * i, 0) : i \in 1..NumConf}

\* The raw values tried for each mapped paystub key.
PaystubValues(key) ==
    CASE key = "EmployeeName" ->
            {Str(<<"J", "O", "H", "N", " ", " ", " ", "S", "M", "I", "T", "H">>),
             Str(<<" ", "\n", " ">>),
             Str(<<>>),
             None}
      [] key = "EmployerName" ->
            {Str(<<"A", "c", "m", "e", " ", " ", "C", "o", "r", "p">>),
             Str(<<>>),
             None}
      [] key = "EmployerAddress" ->
            {Str(<<"1", " ", "M", "a", "i", "n", " ", "S", "t", "\n", "S", "p", "r", "i", "n", "g", "f", "i", "e", "l", "d">>),
             Str(<<>>),
             None}
      [] key = "EIN" ->
            {Str(<<"1", "2", "-", "3", "4", "5", "6">>),
             Str(<<"1", "2", "3", "4", "5", "6">>),
             Str(<<"1", "2", "3", "4", "5">>),
             None}
      [] key = "JobTitle" ->
            {Str(<<"s", "e", "n", "i", "o", "r", " ", " ", "E", "N", "G", "I", "N", "E", "E", "R">>),
             Str(<<"C", "E", "O">>),
             Str(<<>>),
             PyInt(80)}
      [] key = "PayDate" ->
            {Str(<<"0", "1", "/", "1", "9", "/", "2", "0", "2", "4">>),
             Str(<<"1", "1">>),
             Str(<<"n", "/", "a">>)}
      [] key = "CurrentPeriodGrossPay" ->
            {Str(<<"$", "3", ",", "4", "6", "1", ".", "5", "4">>),
             Str(<<"$", "3", ",", " ", "4", "6", "1", ".", " ", "5", "4">>),
             Str(<<"N", "/", "A">>),
             PyFloat(346154, 2)}
      [] key = "TotalHoursWorked" ->
            {Str(<<"8", "0", ".", "0", "0">>),
             Str(<<"8", "0", " ", "h", "r", "s">>),
             PyInt(0),
             Str(<<"n", "/", "a">>)}
      [] OTHER -> {}

\* The raw values tried for each mapped EV key.
EvValues(key) ==
    CASE key = "EmployeeName" ->
            {Str(<<"J", "o", "h", "n", " ", "S", "m", "i", "t", "h">>),
             Str(<<" ">>),
             Str(<<>>),
             None}
      [] key = "CompanyName" ->
            {Str(<<"A", "c", "m", "e", " ", "C", "o">>),
             Str(<<>>),
             None}
      [] key = "Company Address" ->
            {Str(<<"2", " ", "E", "l", "m", " ", " ", "R", "d">>),
             Str(<<>>),
             None}
      [] key = "EIN" ->
            {Str(<<"6", "5", "-", "4", "3", "2", "1">>),
             PyInt(654321),
             Str(<<"6", "5", "4", "3">>),
             None}
      [] key = "HireDate" ->
            {Str(<<"M", "a", "r", "c", "h", " ", "1", ",", " ", "2", "0", "2", "2">>),
             Str(<<"0", "3", "/", "1", "5", "/", "2", "0", "2", "4">>),
             Str(<<"1", "5", "-", "M", "a", "r", "-", "2", "0", "2", "4">>),
             Str(<<"1", "1">>)}
      [] key = "JobTitle" ->
            {Str(<<"s", "t", "a", "f", "f", " ", "e", "n", "g", "i", "n", "e", "e", "r">>),
             Str(<<"V", "P">>),
             Str(<<>>),
             None}
      [] key = "AverageWorkingHours" ->
            {Str(<<"4", "0">>),
             PyFloat(375, 1),
             Str(<<"f", "o", "r", "t", "y">>),
             None}
      [] key = "EmplyomentEndDate" ->
            {Str(<<"2", "0", "2", "4", "-", "0", "6", "-", "3", "0">>),
             Str(<<"1", "3", "/", "4", "5", "/", "2", "0", "2", "4">>),
             Str(<<"6", " ", "3", "0", " ", "2", "4">>),
             None}
      [] key = "EmploymentEndDateReason" ->
            {Str(<<"R", "e", "a", "s", "o", "n", ":", " ", "L", "a", "i", "d", " ", "o", "f", "f">>),
             Str(<<"R", "e", "a", "s", "o", "n", ":", " ", "R", "e", "a", "s", "o", "n", ":", " ", "x">>),
             Str(<<"r", "e", "s", "i", "g", "n", "e", "d">>),
             PyInt(5)}
      [] key = "FinalPayCheckDate" ->
            {Str(<<"0", "7", "/", "0", "5", "/", "2", "4">>),
             Str(<<"n", "/", "a">>),
             Str(<<"1", "2", "/", "3", "1", "/", "0", "9", "9", "9">>)}
      [] OTHER -> {}

\* The raw key a take list reads for a canonical field, "" when it reads none.
RawKeyOf(takes, field) ==
    LET hit == {i \in 1..Len(takes) : takes[i][2] = field}
    IN  IF hit = {} THEN "" ELSE takes[CHOOSE i \in hit : TRUE][1]

\* Keys a source may carry that no take reads.
PaystubNoiseKeys == <<"YearToDateGrossPay", "AveragePayRate", "Bonus">>

EvNoiseKeys == <<"PayFrequency", "AvgPayFrequency", "EmplymentType">>

NoiseItem == Item(Str(<<"M", "o", "n", "t", "h", "l", "y">>), PyFloat(ConfStep, 0))

\* The first j noise keys, as (key, item) pairs.
Noise(keys, j) == {<<keys[i], NoiseItem>> : i \in 1..j}

\* The (key, item) pairs a key may contribute: none, or one per value and
\* confidence.
Entries(key, values, confs) ==
    {{}} \cup {{<<key, Item(v, c)>>} : v \in values, c \in confs}

\* The dict of a set of (key, item) pairs with distinct keys.
Build(pairs) ==
    [k \in {p[1] : p \in pairs} |-> (CHOOSE p \in pairs : p[1] = k)[2]]

\* The RawFieldSet arguments with these entries: with none, the source is
\* absent or empty.
RawSets(pairs) == IF pairs = {} THEN {Absent, Dict(<<>>)} ELSE {Dict(Build(pairs))}

RECURSIVE AddDays(_, _)
\* dt + timedelta(days=k)
AddDays(dt, k) ==
    IF k = 0 THEN dt
    ELSE IF k > 0
    THEN AddDays(IF dt.d < DaysInMonth(dt.y, dt.m) THEN Date(dt.y, dt.m, dt.d + 1)
                 ELSE IF dt.m < 12 THEN Date(dt.y, dt.m + 1, 1)
                 ELSE Date(dt.y + 1, 1, 1), k - 1)
    ELSE AddDays(IF dt.d > 1 THEN Date(dt.y, dt.m, dt.d - 1)
                 ELSE IF dt.m > 1 THEN Date(dt.y, dt.m - 1, DaysInMonth(dt.y, dt.m - 1))
                 ELSE Date(dt.y - 1, 12, 31), k + 1)

\* dt.strftime("%m/%d/%Y") of a four-digit year.
FormatMDY(dt) ==
    ZeroPad(NatDigits(dt.m), 2) \o <<"/">> \o ZeroPad(NatDigits(dt.d), 2)
    \o <<"/">> \o NatDigits(dt.y)

PeriodBase == Date(2023, 12, 20)

PeriodStartValues ==
    {Str(<<"1", "2", "/", "2", "0", "/", "2", "0", "2", "3">>),
     Str(<<"2", "0", "-", "D", "e", "c", "-", "2", "0", "2", "3">>),
     Str(<<"2", "0", "2", "4", "-", "0", "2", "-", "2", "0">>),
     Str(<<"0", "2", "/", "3", "0", "/", "2", "0", "2", "4">>),
     Str(<<"1", "2", "/", "2", "0", "/", "0", "9", "9", "9">>),
     Str(<<>>)}

PeriodEndValues ==
    {Str(FormatMDY(AddDays(PeriodBase, k - SpanBack))) : k \in 0..(SpanBack + MaxSpan)}
    \cup {Str(<<"0", "2", "/", "2", "9", "/", "2", "0", "2", "4">>),
          Str(<<"n", "/", "a">>),
          Str(<<"1", "2", "/", "2", "7", "/", "0", "9", "9", "9">>)}

VARIABLES
    paystub_raw,          \* build_unified's first argument
    ev_raw,               \* build_unified's second argument
    strftime_pads_year,   \* the platform's strftime pads %Y to four digits
    pc,                   \* where the call of build_unified stands
    ps_norm,              \* normalize_paystub's result
    ev_norm,              \* normalize_ev's result
    exc,                  \* the exception the call ended with, "" for none
    result,               \* what build_unified returned
    stage,                \* where the run_merge program stands
    env_ok,               \* AZURE_DI_ENDPOINT and AZURE_DI_KEY are set
    paystub_path,         \* what the first command-line path names
    ev_path,              \* what the second command-line path names
    ps_struct,            \* run()'s local ps_struct
    raw_text,             \* run()'s local raw_text
    calls                 \* how often run() has called build_unified

callvars == <<paystub_raw, ev_raw, pc, ps_norm, ev_norm, exc, result>>

runvars == <<stage, env_ok, paystub_path, ev_path, ps_struct, raw_text, calls>>

vars == <<callvars, runvars, strftime_pads_year, loaded_priority>>

NoReturn == [status |-> "", extracted_fields |-> <<>>]

\* One canonical field supplied by either, both or no source, among noise keys.
FieldInputs ==
    \E f \in CanonicalSet, jp \in 0..MaxNoise, je \in 0..MaxNoise :
        \E pe \in Entries(RawKeyOf(PaystubTakes, f),
                          PaystubValues(RawKeyOf(PaystubTakes, f)), Confs),
           ee \in Entries(RawKeyOf(EvTakes, f), EvValues(RawKeyOf(EvTakes, f)), Confs) :
            /\ paystub_raw \in RawSets(pe \cup Noise(PaystubNoiseKeys, jp))
            /\ ev_raw \in RawSets(ee \cup Noise(EvNoiseKeys, je))

\* A paystub pay period, beside another paystub date and EV noise keys.
PeriodInputs ==
    \E j \in 0..MaxNoise :
        \E se \in Entries("PayPeriodStartDate", PeriodStartValues, Confs),
           ee \in Entries("PayPeriodEndDate", PeriodEndValues, {PyFloat(ConfStep, 0)}),
           de \in Entries("PayDate", {Str(FormatMDY(PeriodBase))}, {None}) :
            /\ paystub_raw \in RawSets(se \cup ee \cup de)
            /\ ev_raw \in RawSets(Noise(EvNoiseKeys, j))

\* The paystub and EV sets of the end-to-end scenario.
ScenarioPaystub ==
    Dict(Build({<<"EmployeeName", Item(Str(<<"J", "O", "H", "N", " ", " ", " ", "S", "M", "I", "T", "H">>), PyFloat(ConfStep, 0))>>,
                <<"CurrentPeriodGrossPay", Item(Str(<<"$", "3", ",", " ", "4", "6", "1", ".", " ", "5", "4">>), PyFloat(ConfStep, 0))>>,
                <<"PayPeriodStartDate", Item(Str(<<"0", "1", "/", "0", "1", "/", "2", "0", "2", "4">>), PyFloat(ConfStep, 0))>>,
                <<"PayPeriodEndDate", Item(Str(<<"0", "1", "/", "1", "4", "/", "2", "0", "2", "4">>), PyFloat(ConfStep, 0))>>}))

ScenarioEv ==
    Dict(Build({<<"HireDate", Item(Str(<<"M", "a", "r", "c", "h", " ", "1", ",", " ", "2", "0", "2", "2">>), PyFloat(ConfStep, 0))>>,
                <<"CompanyName", Item(Str(<<"A", "c", "m", "e", " ", "C", "o">>), PyFloat(ConfStep, 0))>>}))

ScenarioInputs == paystub_raw = ScenarioPaystub /\ ev_raw = ScenarioEv

\* What a command-line path may name: no argument, a path that does not
\* exist, a readable file, or something that exists and cannot be read as a
\* file (a directory, a file without read permission).
PathKinds == {"none", "missing", "file", "unreadable"}

\* build_unified called directly with a pair of RawFieldSets.
DirectCall ==
    /\ FieldInputs \/ PeriodInputs \/ ScenarioInputs
    /\ pc = "start"
    /\ stage = "direct"
    /\ env_ok = TRUE
    /\ paystub_path = "none" /\ ev_path = "none"
    /\ ps_struct = <<>> /\ raw_text = <<>>
    /\ calls = 0

\* python run_merge.py <paystub_path> <ev_path>, before any import.
PipelineRun ==
    /\ paystub_raw = Absent /\ ev_raw = Absent
    /\ pc = "idle"
    /\ stage = "load"
    /\ env_ok \in BOOLEAN
    /\ paystub_path \in PathKinds /\ ev_path \in PathKinds
    /\ ps_struct = <<>> /\ raw_text = <<>>
    /\ calls = 0

Start ==
    /\ DirectCall \/ PipelineRun
    /\ strftime_pads_year \in BOOLEAN
    /\ ps_norm = <<>>
    /\ ev_norm = <<>>
    /\ exc = ""
    /\ result = NoReturn

Init == Start /\ loaded_priority = PRIORITY

\* Tables a rules module may hold: the shipped one, one that names a source
\* no branch of merge_by_priority knows, one without an entry for a field.
PriorityTables ==
    {PRIORITY,
     [PRIORITY EXCEPT !["EIN"] = <<"payroll", "ev">>],
     [f \in CanonicalSet \ {"HireDate"} |-> PRIORITY[f]]}

InitAnyTable == Start /\ loaded_priority \in PriorityTables

(* ------------------------------------------------------------------ *)
(* build_unified, step by step                                         *)
(* ------------------------------------------------------------------ *)

\* normalize_paystub returned its dict, or raised out of build_unified.
PaystubOutcome(r) ==
    /\ ps_norm' = (IF r.exc = "" THEN r.out ELSE ps_norm)
    /\ exc' = r.exc
    /\ pc' = (IF r.exc = "" THEN "paystub_normalized" ELSE "raised")

\* ps_norm = normalize_paystub(paystub_raw or {})
NormalizePaystub ==
    /\ pc = "start"
    /\ PaystubOutcome(normalize_paystub(paystub_raw, strftime_pads_year))
    /\ UNCHANGED <<paystub_raw, ev_raw, strftime_pads_year, ev_norm, result>>
    /\ UNCHANGED <<runvars, loaded_priority>>

\* normalize_ev returned its dict, or raised out of build_unified.
EvOutcome(r) ==
    /\ ev_norm' = (IF r.exc = "" THEN r.out ELSE ev_norm)
    /\ exc' = r.exc
    /\ pc' = (IF r.exc = "" THEN "ev_normalized" ELSE "raised")

\* ev_norm = normalize_ev(ev_raw or {})
NormalizeEv ==
    /\ pc = "paystub_normalized"
    /\ EvOutcome(normalize_ev(ev_raw, strftime_pads_year))
    /\ UNCHANGED <<paystub_raw, ev_raw, strftime_pads_year, ps_norm, result>>
    /\ UNCHANGED <<runvars, loaded_priority>>

\* merged = merge_by_priority(ps_norm, ev_norm); return the unified record.
MergeAndReturn ==
    /\ pc = "ev_normalized"
    /\ result' = [status |-> "success",
                  extracted_fields |-> merge_by_priority(ps_norm, ev_norm)]
    /\ pc' = "returned"
    /\ UNCHANGED <<paystub_raw, ev_raw, strftime_pads_year, ps_norm, ev_norm, exc>>
    /\ UNCHANGED <<runvars, loaded_priority>>

(* ------------------------------------------------------------------ *)
(* run_merge: module loading and run(), step by step                   *)
(* ------------------------------------------------------------------ *)

\* The confidence run() gives an LLM value that carries none.
LlmConfidence == 80

\* What extract_paystub_structured may return.
StructuredResults == {<<>>, ScenarioPaystub.fields}

\* What extract_read_text may return.
OcrTexts == {<<>>, <<"8", "0", " ", "h", "r", "s">>}

\* What extract_llm_fields may return: a dict whose values are bare or
\* {value, confidence} records, the raw response it could not parse, or
\* JSON that is no dict.
LlmResults ==
    {[isdict |-> TRUE, fields |-> <<>>],
     [isdict |-> TRUE,
      fields |-> [k \in {"TotalHoursWorked", "JobTitle"} |->
                     IF k = "TotalHoursWorked" THEN PyFloat(80, 0)
                     ELSE Item(Str(<<"d", "r", "i", "v", "e", "r">>), PyFloat(90, 0))]],
     [isdict |-> TRUE, fields |-> [k \in {"raw_response"} |-> Str(<<"S", "o", "r", "r", "y">>)]],
     [isdict |-> FALSE, fields |-> <<>>]}

\* What extract_ev_structured may return: field contents are text or None.
EvResults ==
    {<<>>,
     ScenarioEv.fields,
     [k \in {"EmploymentEndDateReason", "PayFrequency"} |->
         IF k = "PayFrequency" THEN NoiseItem
         ELSE Item(Str(<<"R", "e", "a", "s", "o", "n", ":", " ", "L", "a", "i", "d", " ", "o", "f", "f">>), None)]}

\* The loop of run() that flattens the LLM dict into ps_struct.
Flatten(struct, llm) ==
    IF ~llm.isdict THEN struct
    ELSE [k \in DOMAIN struct \cup DOMAIN llm.fields |->
             IF k \notin DOMAIN llm.fields THEN struct[k]
             ELSE IF "value" \in DOMAIN llm.fields[k] THEN llm.fields[k]
             ELSE Item(llm.fields[k], PyFloat(LlmConfidence, 0))]

\* The imports at the top of run_merge: paystub_adaptor and ev_adaptor build
\* their clients from the environment, and ev_adaptor calls sys.exit(1)
\* when AZURE_DI_ENDPOINT or AZURE_DI_KEY is missing.
LoadModules ==
    /\ stage = "load"
    /\ stage' = (IF env_ok THEN "run" ELSE "exited")
    /\ UNCHANGED <<callvars, env_ok, paystub_path, ev_path, ps_struct, raw_text, calls>>
    /\ UNCHANGED <<strftime_pads_year, loaded_priority>>

\* `if paystub_path and Path(paystub_path).exists()` and read_bytes(), which
\* is outside every try.
OpenPaystub ==
    /\ stage = "run"
    /\ stage' = (CASE paystub_path = "file" -> "ps_structured"
                   [] paystub_path = "unreadable" -> "aborted"
                   [] OTHER -> "ev")
    /\ UNCHANGED <<callvars, env_ok, paystub_path, ev_path, ps_struct, raw_text, calls>>
    /\ UNCHANGED <<strftime_pads_year, loaded_priority>>

\* try: ps_struct = extract_paystub_structured(ps_bytes); except: ps_struct = {}
StructuredExtraction ==
    /\ stage = "ps_structured"
    /\ ps_struct' \in StructuredResults
    /\ stage' = "ps_ocr"
    /\ UNCHANGED <<callvars, env_ok, paystub_path, ev_path, raw_text, calls>>
    /\ UNCHANGED <<strftime_pads_year, loaded_priority>>

\* try: raw_text = extract_read_text(ps_bytes); except: raw_text = ""
OcrRead ==
    /\ stage = "ps_ocr"
    /\ raw_text' \in OcrTexts
    /\ stage' = "ps_llm"
    /\ UNCHANGED <<callvars, env_ok, paystub_path, ev_path, ps_struct, calls>>
    /\ UNCHANGED <<strftime_pads_year, loaded_priority>>

\* try: llm = extract_llm_fields(raw_text) if raw_text else {}; flatten;
\* except: keep ps_struct. Then paystub_raw = ps_struct.
LlmExtraction ==
    /\ stage = "ps_llm"
    /\ \E llm \in LlmResults, raises \in BOOLEAN :
           ps_struct' = (IF raw_text = <<>> THEN Flatten(ps_struct, [isdict |-> TRUE, fields |-> <<>>])
                         ELSE IF raises THEN ps_struct
                         ELSE Flatten(ps_struct, llm))
    /\ paystub_raw' = Dict(ps_struct')
    /\ stage' = "ev"
    /\ UNCHANGED <<ev_raw, pc, ps_norm, ev_norm, exc, result>>
    /\ UNCHANGED <<env_ok, paystub_path, ev_path, raw_text, calls>>
    /\ UNCHANGED <<strftime_pads_year, loaded_priority>>

\* The EV block of run(): the path test, read_bytes() outside every try,
\* try: ev_struct = extract_ev_structured(ev_bytes); except: ev_struct = {};
\* ev_raw = ev_struct.
EvExtraction ==
    /\ stage = "ev"
    /\ \E out \in EvResults :
           ev_raw' = (IF ev_path = "file" THEN Dict(out) ELSE ev_raw)
    /\ stage' = (IF ev_path = "unreadable" THEN "aborted" ELSE "merge")
    /\ UNCHANGED <<paystub_raw, pc, ps_norm, ev_norm, exc, result>>
    /\ UNCHANGED <<env_ok, paystub_path, ev_path, ps_struct, raw_text, calls>>
    /\ UNCHANGED <<strftime_pads_year, loaded_priority>>

\* unified = build_unified(paystub_raw, ev_raw): the call.
CallBuildUnified ==
    /\ stage = "merge"
    /\ pc' = "start"
    /\ calls' = calls + 1
    /\ stage' = "in_build_unified"
    /\ UNCHANGED <<paystub_raw, ev_raw, ps_norm, ev_norm, exc, result>>
    /\ UNCHANGED <<env_ok, paystub_path, ev_path, ps_struct, raw_text>>
    /\ UNCHANGED <<strftime_pads_year, loaded_priority>>

\* build_unified is back: print(json.dumps(unified)), or its exception ends
\* run().
PrintUnified ==
    /\ stage = "in_build_unified"
    /\ pc \in {"returned", "raised"}
    /\ stage' = (IF pc = "returned" THEN "finished" ELSE "aborted")
    /\ UNCHANGED <<callvars, env_ok, paystub_path, ev_path, ps_struct, raw_text, calls>>
    /\ UNCHANGED <<strftime_pads_year, loaded_priority>>

Next ==
    \/ NormalizePaystub
    \/ NormalizeEv
    \/ MergeAndReturn
    \/ LoadModules
    \/ OpenPaystub
    \/ StructuredExtraction
    \/ OcrRead
    \/ LlmExtraction
    \/ EvExtraction
    \/ CallBuildUnified
    \/ PrintUnified

Spec == Init /\ [][Next]_vars

SpecAnyTable == InitAnyTable /\ [][Next]_vars

(* ------------------------------------------------------------------ *)
(* Properties of the unified record                                    *)
(* ------------------------------------------------------------------ *)

\* build_unified has returned its record.
Returned == pc = "returned"

Fields == result.extracted_fields

\* The fifteen names of the unified record.
FifteenFields ==
    {"EmployeeName", "EmployerName", "EmployerAddress", "EIN", "JobTitle",
     "PayDate", "GrossAmount", "TotalHours", "PayPeriodStartDate",
     "PayPeriodEndDate", "PayFrequency", "HireDate", "LossOfEmploymentDate",
     "LossOfEmploymentReason", "DateOfLastPaycheck"}

SharedFields ==
    {"EmployeeName", "EmployerName", "EmployerAddress", "EIN", "JobTitle", "TotalHours"}

PaystubOnlyFields == {"PayDate", "GrossAmount", "PayPeriodStartDate", "PayPeriodEndDate"}

EvOnlyFields ==
    {"HireDate", "LossOfEmploymentDate", "LossOfEmploymentReason", "DateOfLastPaycheck"}

\* A {value, confidence} record: two keys, a value that is null, text or a
\* number, a confidence that is null or a number.
IsFieldRecord(x) ==
    /\ DOMAIN x = {"value", "confidence"}
    /\ x.value.t \in {"None", "str", "int", "float"}
    /\ x.confidence.t \in {"None", "int", "float"}

\* The normalized dict holds a non-null, non-empty value for the field.
Populated(norm, f) == f \in DOMAIN norm /\ norm[f].value # None /\ norm[f].value # Str(<<>>)

\* The normalized dict a priority entry names.
NormOf(src) == IF src = "paystub" THEN ps_norm ELSE IF src = "ev" THEN ev_norm ELSE <<>>

\* The raw entry of a source under a key, or no entry.
HasRaw(raw, key) == raw.present /\ key \in DOMAIN raw.fields

\* C1: whenever build_unified returns, the status is "success" and
\* extracted_fields has exactly the 15 canonical fields as keys, each mapped
\* to one {value, confidence} record, whatever mix of mapped and unmapped
\* keys the two sources held and whether they were absent or empty.
C1_CompleteRecord ==
    Returned =>
        /\ result.status = "success"
        /\ DOMAIN Fields = FifteenFields
        /\ Cardinality(DOMAIN Fields) = 15
        /\ \A f \in FifteenFields : IsFieldRecord(Fields[f])

\* A paystub with a mapped and an unmapped key beside an absent EV, merged
\* into a record where an unsupplied field is null.
C1_Witness ==
    /\ Returned
    /\ HasRaw(paystub_raw, "EIN") /\ HasRaw(paystub_raw, "YearToDateGrossPay")
    /\ ~ev_raw.present
    /\ Fields["EIN"].value # None
    /\ Fields["HireDate"] = Item(None, None)

\* C2: build_unified never raises: no run ends in an exception, and every
\* normalized entry is a well-shaped {value, confidence} record.
C2_NeverRaises ==
    /\ pc # "raised"
    /\ exc = ""
    /\ \A f \in DOMAIN ps_norm : IsFieldRecord(ps_norm[f])
    /\ \A f \in DOMAIN ev_norm : IsFieldRecord(ev_norm[f])

\* C3: a field takes the normalized entry of the first source of its priority
\* list that is populated: the paystub entry whenever the paystub is
\* populated, the EV entry of a shared field only when the paystub is not;
\* the confidences of the entries, which range over every assignment, play
\* no part.
C3_PriorityDeterminism ==
    Returned =>
        /\ \A f \in SharedFields \cup PaystubOnlyFields :
               Populated(ps_norm, f) => Fields[f] = ps_norm[f]
        /\ \A f \in SharedFields :
               (~Populated(ps_norm, f) /\ Populated(ev_norm, f)) => Fields[f] = ev_norm[f]
        /\ \A f \in EvOnlyFields :
               Populated(ev_norm, f) => Fields[f] = ev_norm[f]

\* Both sources populate a shared field with different values, the EV entry
\* with the higher confidence, and the paystub entry is chosen.
C3_Witness ==
    /\ Returned
    /\ \E f \in SharedFields :
           /\ Populated(ps_norm, f) /\ Populated(ev_norm, f)
           /\ ps_norm[f].value # ev_norm[f].value
           /\ ConfidenceRank(ev_norm[f]) > ConfidenceRank(ps_norm[f])
           /\ Fields[f] = ps_norm[f]

\* C4: a non-derived field that no source of its priority list populates is
\* exactly {value: null, confidence: null} in the unified record.
C4_AbsencePropagation ==
    Returned =>
        \A f \in FifteenFields \ {"PayFrequency"} :
            (\A i \in 1..Len(PriorityOf(f)) : ~Populated(NormOf(PriorityOf(f)[i]), f))
                => Fields[f] = Item(None, None)

\* The EV supplies a tax id with a confidence whose normalized value is
\* null, the paystub supplies none, and the unified entry is all null.
C4_Witness ==
    /\ Returned
    /\ HasRaw(ev_raw, "EIN")
    /\ ev_raw.fields["EIN"].confidence # None
    /\ "EIN" \in DOMAIN ev_norm /\ ev_norm["EIN"].value = None
    /\ ~HasRaw(paystub_raw, "EIN")
    /\ Fields["EIN"] = Item(None, None)

\* A text of the shape YYYY-MM-DD that names a calendar date.
IsIsoDateText(v) ==
    /\ v.t = "str"
    /\ Len(v.s) = 10
    /\ v.s[5] = "-" /\ v.s[8] = "-"
    /\ \A i \in {1, 2, 3, 4, 6, 7, 9, 10} : IsDigit(v.s[i])
    /\ ValidDate(ToNat(SubSeq(v.s, 1, 4)), ToNat(SubSeq(v.s, 6, 7)), ToNat(SubSeq(v.s, 9, 10)))

\* The day number of a civil date, counted from the era rule of the
\* proleptic Gregorian calendar (March-based years, 146097-day eras).
CivilDays(y, m, d) ==
    LET yy == IF m <= 2 THEN y - 1 ELSE y
        era == yy \div 400
        yoe == yy - era * 400
        mp == IF m > 2 THEN m - 3 ELSE m + 9
        doy == (153 * mp + 2) \div 5 + d - 1
    IN  era * 146097 + yoe * 365 + yoe \div 4 - yoe \div 100 + doy

CivilDaysOfText(v) ==
    CivilDays(ToNat(SubSeq(v.s, 1, 4)), ToNat(SubSeq(v.s, 6, 7)), ToNat(SubSeq(v.s, 9, 10)))

\* (end - start) + 1 of two YYYY-MM-DD texts.
InclusiveDays(s, e) == CivilDaysOfText(e) - CivilDaysOfText(s) + 1

PeriodStart == ValueAt(ps_norm, "PayPeriodStartDate")

PeriodEnd == ValueAt(ps_norm, "PayPeriodEndDate")

BothPeriodDatesValid == IsIsoDateText(PeriodStart) /\ IsIsoDateText(PeriodEnd)

\* C5: for valid normalized period dates the derived frequency is "Weekly"
\* for an inclusive day count of at most 8, zero and negative counts
\* included, "Bi-Weekly" for 9..15, "Semi-Monthly" for 16..20 and "Monthly"
\* from 21 on.
C5_FrequencyClassification ==
    (Returned /\ BothPeriodDatesValid) =>
        LET n == InclusiveDays(PeriodStart, PeriodEnd)
        IN  Fields["PayFrequency"].value =
                (IF n <= 8 THEN Str(<<"W", "e", "e", "k", "l", "y">>)
                 ELSE IF n >= 9 /\ n <= 15 THEN Str(<<"B", "i", "-", "W", "e", "e", "k", "l", "y">>)
                 ELSE IF n >= 16 /\ n <= 20 THEN Str(<<"S", "e", "m", "i", "-", "M", "o", "n", "t", "h", "l", "y">>)
                 ELSE Str(<<"M", "o", "n", "t", "h", "l", "y">>))

\* A period whose end lies before its start is classified "Weekly".
C5_Witness ==
    /\ Returned
    /\ BothPeriodDatesValid
    /\ InclusiveDays(PeriodStart, PeriodEnd) < 0
    /\ Fields["PayFrequency"].value = Str(<<"W", "e", "e", "k", "l", "y">>)

\* C6: PayFrequency is non-null exactly when both paystub period dates
\* normalize to valid YYYY-MM-DD dates, then with confidence 100; otherwise
\* it is {value: null, confidence: null}, and build_unified still returns.
C6_DerivedWhenBothDates ==
    Returned =>
        IF BothPeriodDatesValid
        THEN /\ Fields["PayFrequency"].value # None
             /\ Fields["PayFrequency"].confidence = PyFloat(100, 0)
        ELSE Fields["PayFrequency"] = Item(None, None)

\* The paystub holds both period keys, the start is no date, and the
\* returned record has a null PayFrequency.
C6_Witness ==
    /\ Returned
    /\ HasRaw(paystub_raw, "PayPeriodStartDate") /\ HasRaw(paystub_raw, "PayPeriodEndDate")
    /\ paystub_raw.fields["PayPeriodStartDate"].value.t = "str"
    /\ Len(paystub_raw.fields["PayPeriodStartDate"].value.s) = 10
    /\ PeriodStart = None
    /\ IsIsoDateText(PeriodEnd)
    /\ Fields["PayFrequency"] = Item(None, None)

\* The paystub reduced to its two period entries.
PeriodEntriesOnly(raw) ==
    IF raw.present
    THEN Dict([k \in DOMAIN raw.fields \cap {"PayPeriodStartDate", "PayPeriodEndDate"}
                  |-> raw.fields[k]])
    ELSE raw

\* PayFrequency of build_unified on the two period entries alone, no EV.
FrequencyOfPeriodEntries ==
    merge_by_priority(normalize_paystub(PeriodEntriesOnly(paystub_raw),
                                        strftime_pads_year).out, <<>>)["PayFrequency"]

\* C7: the unified PayFrequency is the one build_unified gives for the two
\* paystub period entries alone, so calls that agree on them agree on it,
\* whatever the EV and the other paystub keys hold; and an EV entry under
\* "PayFrequency" or "AvgPayFrequency" is never the unified entry.
C7_FrequencyFromPeriodOnly ==
    Returned =>
        /\ Fields["PayFrequency"] = FrequencyOfPeriodEntries
        /\ \A k \in {"PayFrequency", "AvgPayFrequency"} :
               HasRaw(ev_raw, k) => Fields["PayFrequency"] # ev_raw.fields[k]

\* The EV carries a "Monthly" guess and the paystub a pay date beside its
\* period, and the unified PayFrequency is the derived "Bi-Weekly".
C7_Witness ==
    /\ Returned
    /\ HasRaw(ev_raw, "PayFrequency")
    /\ ev_raw.fields["PayFrequency"].value = Str(<<"M", "o", "n", "t", "h", "l", "y">>)
    /\ HasRaw(paystub_raw, "PayDate")
    /\ Fields["PayFrequency"].value = Str(<<"B", "i", "-", "W", "e", "e", "k", "l", "y">>)

\* C8: the unified GrossAmount of a paystub CurrentPeriodGrossPay is the
\* number that currency-to-number gives for the repaired value, or null; it
\* is never text.
C8_GrossAmountIsNumber ==
    (Returned /\ HasRaw(paystub_raw, "CurrentPeriodGrossPay")) =>
        /\ Fields["GrossAmount"].value.t # "str"
        /\ Fields["GrossAmount"].value =
               money_to_float(clean_money(paystub_raw.fields["CurrentPeriodGrossPay"].value))

\* A text of exactly six digits.
IsSixDigits(v) == v.t = "str" /\ Len(v.s) = 6 /\ \A i \in 1..6 : IsDigit(v.s[i])

\* C9: the tax id either normalizer emits, and so the unified EIN, is null or
\* a text of exactly six digits.
C9_EinNullOrSixDigits ==
    /\ \A norm \in {ps_norm, ev_norm} :
           "EIN" \in DOMAIN norm => (norm["EIN"].value = None \/ IsSixDigits(norm["EIN"].value))
    /\ Returned => (Fields["EIN"].value = None \/ IsSixDigits(Fields["EIN"].value))

\* C10: on the scenario's paystub and EV the unified record has EmployeeName
\* "JOHN SMITH", GrossAmount 3461.54, PayFrequency "Bi-Weekly", EmployerName
\* "Acme Co" taken from the EV, and as HireDate the date the digit fallback
\* of date parsing produces.
C10_Scenario ==
    (Returned /\ paystub_raw = ScenarioPaystub /\ ev_raw = ScenarioEv) =>
        /\ Fields["EmployeeName"].value = Str(<<"J", "O", "H", "N", " ", "S", "M", "I", "T", "H">>)
        /\ Fields["GrossAmount"].value = PyFloat(346154, 2)
        /\ Fields["PayFrequency"].value = Str(<<"B", "i", "-", "W", "e", "e", "k", "l", "y">>)
        /\ Fields["EmployerName"].value = Str(<<"A", "c", "m", "e", " ", "C", "o">>)
        /\ Fields["HireDate"].value # None
        /\ Fields["HireDate"].value =
               DateText(DigitFallback(<<"M", "a", "r", "c", "h", " ", "1", ",", " ", "2", "0", "2", "2">>), strftime_pads_year)

\* Every entry of a normalized dict is what its own normalizer returns for it.
StableUnder(takes, norm) ==
    \A i \in 1..Len(takes) :
        takes[i][2] \in DOMAIN norm =>
            ApplyNormalizer(takes[i][3], norm[takes[i][2]], strftime_pads_year)
                = norm[takes[i][2]]

\* C11: every per-source normalizer is idempotent: applied to an entry it has
\* already normalized, it returns the entry with the same value and the same
\* confidence.
C11_NormalizersIdempotent ==
    StableUnder(PaystubTakes, ps_norm) /\ StableUnder(EvTakes, ev_norm)

\* The source supplied the field with a value that its normalizer rejected:
\* a raw value that is neither null nor empty, normalized to null.
Rejected(raw, takes, norm, f) ==
    /\ HasRaw(raw, RawKeyOf(takes, f))
    /\ Truthy(raw.fields[RawKeyOf(takes, f)].value)
    /\ f \in DOMAIN norm
    /\ norm[f].value = None

\* C12: a field whose consulted source supplied a value that failed
\* validation is null with that source's confidence preserved, and a field
\* for which no source supplied anything is null with a null confidence.
C12_RejectionKeepsConfidence ==
    Returned =>
        \A f \in FifteenFields \ {"PayFrequency"} :
            /\ (/\ "ev" \in SeqRange(PriorityOf(f))
                /\ Rejected(ev_raw, EvTakes, ev_norm, f)
                /\ f \notin DOMAIN ps_norm)
                   => Fields[f] = Item(None, ev_norm[f].confidence)
            /\ (/\ "paystub" \in SeqRange(PriorityOf(f))
                /\ Rejected(paystub_raw, PaystubTakes, ps_norm, f)
                /\ f \notin DOMAIN ev_norm)
                   => Fields[f] = Item(None, ps_norm[f].confidence)
            /\ (f \notin DOMAIN ps_norm /\ f \notin DOMAIN ev_norm)
                   => Fields[f] = Item(None, None)

\* C13: no failure ends the pipeline early: the program never exits at load
\* and run() never aborts, it calls build_unified exactly once and finishes
\* with a complete unified record, and a source without a file reaches
\* build_unified as absent.
C13_GracefulDegradation ==
    /\ stage \notin {"exited", "aborted"}
    /\ calls <= 1
    /\ stage = "finished" =>
           /\ calls = 1
           /\ result.status = "success"
           /\ DOMAIN Fields = FifteenFields
    /\ stage \in {"in_build_unified", "finished"} =>
           /\ paystub_path \in {"none", "missing"} => ~paystub_raw.present
           /\ ev_path \in {"none", "missing"} => ~ev_raw.present

\* The confidence a source supplied on the raw key of a canonical field.
RawConfidence(raw, takes, f) == raw.fields[RawKeyOf(takes, f)].confidence

\* Every entry of a normalized dict has the confidence of its raw entry.
ConfidenceKept(raw, takes, norm) ==
    \A f \in DOMAIN norm : norm[f].confidence = RawConfidence(raw, takes, f)

\* C14: a normalizer returns the confidence of its input record, a unified
\* field selected from the paystub or the EV has the confidence that source
\* supplied on its raw key, null included, and only a derived PayFrequency
\* has a confidence of its own.
C14_ConfidenceUnaltered ==
    /\ ConfidenceKept(paystub_raw, PaystubTakes, ps_norm)
    /\ ConfidenceKept(ev_raw, EvTakes, ev_norm)
    /\ Returned =>
           /\ \A f \in SharedFields \cup PaystubOnlyFields :
                  Populated(ps_norm, f) =>
                      Fields[f].confidence = RawConfidence(paystub_raw, PaystubTakes, f)
           /\ \A f \in SharedFields \cup EvOnlyFields :
                  (Populated(ev_norm, f) /\ ~Populated(ps_norm, f)) =>
                      Fields[f].confidence = RawConfidence(ev_raw, EvTakes, f)
           /\ \A f \in FifteenFields \ {"PayFrequency"} :
                  (~Populated(ps_norm, f) /\ ~Populated(ev_norm, f)) =>
                      Fields[f].confidence = None

\* The paystub supplies a shared field with an empty value and the EV wins
\* with a value that normalization changed and a confidence of its own; a
\* rejected EV entry elsewhere keeps its confidence in the normalized dict.
C14_Witness ==
    /\ Returned
    /\ \E f \in SharedFields :
           /\ f \in DOMAIN ps_norm /\ ~Populated(ps_norm, f)
           /\ Populated(ev_norm, f)
           /\ ev_norm[f].value # ev_raw.fields[RawKeyOf(EvTakes, f)].value
           /\ ev_norm[f].confidence # None
           /\ ev_norm[f].confidence # ps_norm[f].confidence
           /\ Fields[f] = ev_norm[f]

\* The table has an entry for every canonical field and names only the
\* sources paystub, ev and derived.
TableValid(table) ==
    /\ CanonicalSet \subseteq DOMAIN table
    /\ \A f \in DOMAIN table :
           \A i \in 1..Len(table[f]) : table[f][i] \in {"paystub", "ev", "derived"}

\* C15: a priority table that names an unknown source or lacks a field's
\* entry is fatal at load: the program never gets past loading with it and
\* build_unified never returns a record merged against it.
C15_BadTableFatalAtLoad ==
    ~TableValid(loaded_priority) =>
        /\ stage \in {"direct", "load", "exited"}
        /\ pc \notin {"ev_normalized", "returned"}

\* The canonical fields that parse_date normalizes.
DateFields ==
    {"PayDate", "PayPeriodStartDate", "PayPeriodEndDate", "HireDate",
     "LossOfEmploymentDate", "DateOfLastPaycheck"}

\* What parse_date gave for a raw entry: null for a text that is shorter than
\* 6 characters once its whitespace is normalized, and otherwise null or a
\* valid calendar date in YYYY-MM-DD form.
ParsedAsClaimed(raw, takes, norm, f) ==
    LET txt == squash_spaces(Str(PyStr(raw.fields[RawKeyOf(takes, f)].value)))
    IN  /\ (txt = None \/ Len(txt.s) < 6) => norm[f].value = None
        /\ norm[f].value = None \/ IsIsoDateText(norm[f].value)

\* C16: parse_date never raises and returns null for a too short text, and
\* otherwise the YYYY-MM-DD form of the date the first matching layout or
\* the digit fallback gives, so every normalized date is null or a valid
\* calendar date in YYYY-MM-DD form.
C16_DatesNullOrIso ==
    /\ exc # "ValueError"
    /\ \A f \in DateFields \cap DOMAIN ps_norm :
           ParsedAsClaimed(paystub_raw, PaystubTakes, ps_norm, f)
    /\ \A f \in DateFields \cap DOMAIN ev_norm :
           ParsedAsClaimed(ev_raw, EvTakes, ev_norm, f)
    /\ parse_date(Str(<<"0", "3", "/", "1", "5", "/", "2", "0", "2", "4">>), strftime_pads_year)
           = Str(<<"2", "0", "2", "4", "-", "0", "3", "-", "1", "5">>)
    /\ parse_date(Str(<<"1", "5", "-", "M", "a", "r", "-", "2", "0", "2", "4">>), strftime_pads_year)
           = Str(<<"2", "0", "2", "4", "-", "0", "3", "-", "1", "5">>)

====
